---- MODULE Spec2Model ----
(***************************************************************************)
(* ScreenToImageKit: the capture-to-upload pipeline.                       *)
(*                                                                         *)
(* One capture's lifecycle is modelled: ImageHandler.capture_area of       *)
(* utils/imaging.py saves the temp file and submits the background naming  *)
(* task (_process_image_async._background_task) to its executor; the UI    *)
(* thread meanwhile runs the MainWindow handlers that consume the temp     *)
(* path (_quick_capture, _on_upload_confirmed, _on_preview_cancelled),     *)
(* ImageKitService.upload_file and TempFileService.cleanup_file.  The two  *)
(* threads interleave step by step; every step is one filesystem call,     *)
(* lock operation or collaborator call of the source.                      *)
(*                                                                         *)
(* Paths are opaque tokens.  The AI and image-host collaborators are the   *)
(* environment: their answers are drawn nondeterministically.              *)
(***************************************************************************)
EXTENDS Integers, Sequences, FiniteSets, TLC

None == "None"

\* upload_file(file_path, max_retries=3, retry_delay=1)
MaxRetries == 3

\* the smallest accepted side of a selection (capture_area)
MinSize == 10

\* coordinates a drag can produce in the model: equal, close and far apart
Coords == {0, 5, 20}

\* the capture's paths: temp_path of generate_temp_path, and the two new_path
\* values the naming stage builds
TempPath == "s1234abcd.png"
DefaultPath == "screenshot_ts.png"
DescribedPath == "description_ts.png"

\* what model.generate_content can produce once it answers: a response with
\* text, a response with empty text, a response whose .text raises (safety
\* filter), or an exception
AIOutcomes == {"text", "empty", "blocked", "error"}

\* what imagekit.upload_file can produce: a result with a url, a result
\* without one, or an exception
UploadOutcomes == {"ok", "invalid", "error"}

VARIABLES
    files,           \* names present in the temp directory
    openFile,        \* the path upload_file holds open, or None
    windows,         \* the platform refuses to rename a file that is open
    is_initialized,  \* ImageAnalysisService.is_initialized
    aiAnswers,       \* whether generate_content ever returns in this run
    aiState,         \* the future of generate_content: idle, pending, answered
    response,        \* what generate_content produced
    aiSubmits,       \* requests submitted to the AI collaborator
    imagekit,        \* ImageKitService.imagekit is not None
    use_gemini_var,  \* MainWindow.use_gemini_var, the caller's choice
    use_gemini,      \* the use_gemini argument of _process_image_async
    callback,        \* whether a callback was passed to capture_area
    taskPc,          \* position of _background_task
    block,           \* which rename block of _background_task is running
    lock,            \* holder of ImageHandler._processing_lock
    timedOut,        \* future.result(timeout) raised TimeoutError
    description,     \* result of analyze_image_async
    cbLog,           \* paths the callback was invoked with, in order
    renames,         \* os.rename calls that succeeded, as <<from, to>>
    uiPc,            \* position of the UI thread
    route,           \* which handler made the capture: quick or preview
    attempt,         \* loop index of upload_file
    calls,           \* calls made to imagekit.upload_file
    last_error,      \* last_error of upload_file
    result,          \* what upload_file returned or raised
    clipboard        \* texts passed to pyperclip.copy, in order

fsVars == <<files, openFile, windows>>
aiVars == <<is_initialized, aiAnswers, aiState, response, aiSubmits>>
cfgVars == <<imagekit, use_gemini_var>>
taskVars == <<use_gemini, callback, taskPc, block, lock, timedOut, description, cbLog, renames>>
uploadVars == <<attempt, calls, last_error, result, clipboard>>
uiVars == <<uiPc, route>>

\* the annotation canvas of the preview window (ui/drawing_tools.py).  Elements
\* are objects: heap[i] holds the attributes of object i, and the canvas's
\* collections hold object ids.  Python lists that objects refer to (points,
\* a group's members) live in lists and are referred to by index
VARIABLES
    elements,           \* DrawingCanvas.elements: ids, in insertion order
    selected_elements,  \* DrawingCanvas.selected_elements: a set of ids
    canvas_clipboard,   \* DrawingCanvas.clipboard: ids of the copies
    undo_stack,         \* DrawingCanvas.undo_stack: <<action, payload>> entries
    redo_stack,         \* DrawingCanvas.redo_stack
    current_tool,       \* DrawingCanvas.current_tool
    drawing,            \* DrawingCanvas.drawing
    current_element,    \* DrawingCanvas.current_element: an id, or 0 for None
    heap,               \* the DrawingElement objects created so far
    lists,              \* the list objects created so far
    edits               \* move and rotate calls made so far

canvasVars == <<elements, selected_elements, canvas_clipboard, undo_stack, redo_stack,
                current_tool, drawing, current_element, heap, lists, edits>>
pipeVars == <<fsVars, aiVars, cfgVars, taskVars, uploadVars, uiVars>>

\* single calls of functions that keep no state of their own
VARIABLES
    area,               \* the selection handed to a capture_area
    captured,           \* what that capture_area did and returned
    ai_text,            \* the description handed to _format_description
    final_name          \* what _format_description returned

callVars == <<area, captured, ai_text, final_name>>
vars == <<pipeVars, canvasVars, callVars>>

\* no call has been made
NoCall ==
    /\ area = <<>>
    /\ captured = [by |-> "nobody"]
    /\ ai_text = <<>>
    /\ final_name = <<>>

\* DrawingCanvas.__init__, lines 214-230
NewCanvas ==
    /\ elements = <<>>
    /\ selected_elements = {}
    /\ canvas_clipboard = <<>>
    /\ undo_stack = <<>>
    /\ redo_stack = <<>>
    /\ current_tool = "SELECT"
    /\ drawing = FALSE
    /\ current_element = 0
    /\ heap = <<>>
    /\ lists = <<>>
    /\ edits = 0

Init ==
    /\ files = {}
    /\ openFile = None
    /\ windows \in BOOLEAN
    /\ is_initialized \in BOOLEAN
    /\ aiAnswers \in BOOLEAN
    /\ aiState = "idle"
    /\ response = None
    /\ aiSubmits = 0
    /\ imagekit \in BOOLEAN
    /\ use_gemini_var \in BOOLEAN
    /\ use_gemini = FALSE
    /\ callback = FALSE
    /\ taskPc = "none"
    /\ block = None
    /\ lock = "free"
    /\ timedOut = FALSE
    /\ description = None
    /\ cbLog = <<>>
    /\ renames = <<>>
    /\ uiPc = "idle"
    /\ route = None
    /\ attempt = 0
    /\ calls = 0
    /\ last_error = None
    /\ result = None
    /\ clipboard = <<>>
    /\ NewCanvas
    /\ NoCall

----------------------------------------------------------------------------
(* ImageHandler.capture_area and _process_image_async *)

Min(a, b) == IF a < b THEN a ELSE b
Max(a, b) == IF a > b THEN a ELSE b

\* capture_area's checks on the selection: both sides non-degenerate and, after
\* min/max normalisation, at least MinSize wide and high
AreaAccepted(x1, y1, x2, y2) ==
    /\ x1 # x2
    /\ y1 # y2
    /\ ~ (Max(x1, x2) - Min(x1, x2) < MinSize)
    /\ ~ (Max(y1, y2) - Min(y1, y2) < MinSize)

\* the use_gemini argument capture_area hands to _process_image_async: the call
\* passes (temp_path, callback) only, so the parameter takes its default, True
UseGeminiArgument(choice) == TRUE

\* capture_area(area, cb): on an accepted area the screenshot is saved under
\* temp_path and the background task is submitted; otherwise (None, None)
capture_area(x1, y1, x2, y2, cb, r, next) ==
    /\ uiPc = "idle"
    /\ route' = r
    /\ IF AreaAccepted(x1, y1, x2, y2)
       THEN /\ files' = files \cup {TempPath}
            /\ use_gemini' = UseGeminiArgument(use_gemini_var)
            /\ callback' = cb
            /\ taskPc' = "start"
            /\ uiPc' = next
       ELSE /\ uiPc' = "done"
            /\ UNCHANGED <<files, use_gemini, callback, taskPc>>
    /\ UNCHANGED <<openFile, windows, aiVars, cfgVars, canvasVars, callVars, block, lock, timedOut,
                   description, cbLog, renames, uploadVars>>

----------------------------------------------------------------------------
(* _process_image_async._background_task, run by the executor's worker *)

\* the new_path a rename block builds: f"{description}_{timestamp}.png" in the
\* block that follows a description, f"screenshot_{timestamp}.png" elsewhere
NewPath(b) == IF b = "ai" THEN DescribedPath ELSE DefaultPath

\* os.path.exists(temp_path)
Exists(path) == path \in files

\* os.rename(temp_path, new_path) succeeds when the source is there and, on
\* Windows, no handle to it is open (upload_file reads it through open())
RenameSucceeds(path) == Exists(path) /\ ~ (windows /\ openFile = path)

\* line 35: the task takes the default branch when AI naming is off or the
\* analysis service has no credential
TaskStart ==
    /\ taskPc = "start"
    /\ IF ~ use_gemini \/ ~ is_initialized
       THEN block' = "default" /\ taskPc' = "check"
       ELSE block' = block /\ taskPc' = "open_image"
    /\ UNCHANGED <<fsVars, aiVars, cfgVars, canvasVars, callVars, use_gemini, callback, lock, timedOut,
                   description, cbLog, renames, uploadVars, uiVars>>

\* analyze_image_async, lines 231-240: reading the image raises when the file is
\* gone; the handler at line 264 turns that into "no description"
AnalyzeOpenImage ==
    /\ taskPc = "open_image"
    /\ IF Exists(TempPath)
       THEN taskPc' = "submit" /\ description' = description
       ELSE taskPc' = "named" /\ description' = None
    /\ UNCHANGED <<fsVars, aiVars, cfgVars, canvasVars, callVars, use_gemini, callback, block, lock,
                   timedOut, cbLog, renames, uploadVars, uiVars>>

\* _analyze_with_timeout, lines 157-164: the request is handed to a fresh executor
AnalyzeSubmit ==
    /\ taskPc = "submit"
    /\ aiState' = "pending"
    /\ aiSubmits' = aiSubmits + 1
    /\ taskPc' = "min_wait"
    /\ UNCHANGED <<fsVars, is_initialized, aiAnswers, response, cfgVars, canvasVars, callVars, use_gemini,
                   callback, block, lock, timedOut, description, cbLog, renames,
                   uploadVars, uiVars>>

\* line 166: await asyncio.sleep(self.min_wait)
AnalyzeMinWait ==
    /\ taskPc = "min_wait"
    /\ taskPc' = "result"
    /\ UNCHANGED <<fsVars, aiVars, cfgVars, canvasVars, callVars, use_gemini, callback, block, lock,
                   timedOut, description, cbLog, renames, uploadVars, uiVars>>

\* the AI collaborator answers the pending request (model.generate_content
\* returns or raises), at any moment, if it ever does
GenerateContent ==
    /\ aiState = "pending"
    /\ aiAnswers
    /\ aiState' = "answered"
    /\ response' \in AIOutcomes
    /\ UNCHANGED <<fsVars, is_initialized, aiAnswers, aiSubmits, cfgVars, canvasVars, callVars, taskVars,
                   uploadVars, uiVars>>

\* what _analyze_with_timeout returns (lines 171-184): the response when
\* future.result delivered one; None when it raised, be it the collaborator's
\* exception or the timeout, whatever the future holds later
AnalyzeLate(resp, late) ==
    IF resp = "error" THEN None ELSE resp
AnalyzeReturn(resp, late) ==
    IF late \/ resp = "error" THEN None ELSE resp

\* what analyze_image_async makes of it (lines 255-266): the formatted
\* description when the response has text; None for no response, empty text, or
\* a response whose .text raises
DescribeAny(ret) ==
    IF ret = None THEN None ELSE "description"
Describe(ret) ==
    IF ret = "text" THEN "description" ELSE None

\* lines 172-177: future.result returns within the remaining time; leaving the
\* with block has nothing to wait for, the future being done
AnalyzeResult ==
    /\ taskPc = "result"
    /\ aiState = "answered"
    /\ description' = Describe(AnalyzeReturn(response, FALSE))
    /\ taskPc' = "named"
    /\ UNCHANGED <<fsVars, aiVars, cfgVars, canvasVars, callVars, use_gemini, callback, block, lock,
                   timedOut, cbLog, renames, uploadVars, uiVars>>

\* lines 178-180: the hard timeout expires with the request still pending; the
\* return statement then leaves the "with ThreadPoolExecutor()" block
AnalyzeTimeout ==
    /\ taskPc = "result"
    /\ aiState = "pending"
    /\ timedOut' = TRUE
    /\ taskPc' = "shutdown"
    /\ UNCHANGED <<fsVars, aiVars, cfgVars, canvasVars, callVars, use_gemini, callback, block, lock,
                   description, cbLog, renames, uploadVars, uiVars>>

\* line 157: ThreadPoolExecutor.__exit__ is shutdown(wait=True); it returns when
\* the worker running generate_content has finished
AnalyzeShutdown ==
    /\ taskPc = "shutdown"
    /\ aiState # "pending"
    /\ description' = Describe(AnalyzeReturn(response, TRUE))
    /\ taskPc' = "named"
    /\ UNCHANGED <<fsVars, aiVars, cfgVars, canvasVars, callVars, use_gemini, callback, block, lock,
                   timedOut, cbLog, renames, uploadVars, uiVars>>

\* line 62: with a description the AI rename block runs, else the fallback block
TaskNamed ==
    /\ taskPc = "named"
    /\ block' = IF description # None THEN "ai" ELSE "fallback"
    /\ taskPc' = "check"
    /\ UNCHANGED <<fsVars, aiVars, cfgVars, canvasVars, callVars, use_gemini, callback, lock, timedOut,
                   description, cbLog, renames, uploadVars, uiVars>>

\* where the task goes when a block's existence check fails: the AI block falls
\* through to the fallback block (line 78), every other block ends the task
AfterMissing(b) == IF b = "ai" THEN "check" ELSE "done"

\* "with self._processing_lock: if os.path.exists(temp_path):" of lines 43-44,
\* 70-71, 84-85 and 103-104
TaskCheck ==
    /\ taskPc = "check"
    /\ lock = "free"
    /\ IF Exists(TempPath)
       THEN /\ lock' = "task"
            /\ taskPc' = "rename"
            /\ block' = block
       ELSE /\ lock' = "free"
            /\ taskPc' = AfterMissing(block)
            /\ block' = IF block = "ai" THEN "fallback" ELSE block
    /\ UNCHANGED <<fsVars, aiVars, cfgVars, canvasVars, callVars, use_gemini, callback, timedOut,
                   description, cbLog, renames, uploadVars, uiVars>>

\* os.rename(temp_path, new_path) of lines 45, 72, 86 and 105.  An OSError
\* leaves the with block (releasing the lock): from the try body it reaches the
\* handler of line 94, from that handler's own rename the handler of line 108
TaskRename ==
    /\ taskPc = "rename"
    /\ IF RenameSucceeds(TempPath)
       THEN /\ files' = (files \ {TempPath}) \cup {NewPath(block)}
            /\ renames' = Append(renames, <<TempPath, NewPath(block)>>)
            /\ taskPc' = "callback"
            /\ UNCHANGED <<lock, block>>
       ELSE /\ lock' = "free"
            /\ IF block = "except"
               THEN taskPc' = "rename_error" /\ block' = block
               ELSE taskPc' = "check" /\ block' = "except"
            /\ UNCHANGED <<files, renames>>
    /\ UNCHANGED <<openFile, windows, aiVars, cfgVars, canvasVars, callVars, use_gemini, callback,
                   timedOut, description, cbLog, uploadVars, uiVars>>

\* "if callback: callback(new_path)" of lines 46, 74, 88 and 106, inside the
\* with block; the lock is released when the block is left, and the task ends
TaskCallback ==
    /\ taskPc = "callback"
    /\ cbLog' = IF callback THEN Append(cbLog, NewPath(block)) ELSE cbLog
    /\ lock' = "free"
    /\ taskPc' = "done"
    /\ UNCHANGED <<fsVars, aiVars, cfgVars, canvasVars, callVars, use_gemini, callback, block, timedOut,
                   description, renames, uploadVars, uiVars>>

\* lines 108-111: the fallback rename raised; "if callback: callback(temp_path)"
TaskRenameError ==
    /\ taskPc = "rename_error"
    /\ cbLog' = IF callback THEN Append(cbLog, TempPath) ELSE cbLog
    /\ taskPc' = "done"
    /\ UNCHANGED <<fsVars, aiVars, cfgVars, canvasVars, callVars, use_gemini, callback, block, lock,
                   timedOut, description, renames, uploadVars, uiVars>>

TaskStep ==
    \/ TaskStart
    \/ AnalyzeOpenImage
    \/ AnalyzeSubmit
    \/ AnalyzeMinWait
    \/ AnalyzeResult
    \/ AnalyzeTimeout
    \/ AnalyzeShutdown
    \/ TaskNamed
    \/ TaskCheck
    \/ TaskRename
    \/ TaskCallback
    \/ TaskRenameError

----------------------------------------------------------------------------
(* MainWindow handlers, on the UI thread *)

\* _quick_capture, lines 253-263: the user selects an area, capture_area is
\* called without a callback, and upload_file follows in the same handler
quick_capture ==
    \E x1 \in Coords, y1 \in Coords, x2 \in Coords, y2 \in Coords :
        capture_area(x1, y1, x2, y2, FALSE, "quick", "upload")

\* a capture made for the preview window: capture_area(area, callback) with or
\* without a completion callback; the preview then waits for the user
preview_capture ==
    \E x1 \in Coords, y1 \in Coords, x2 \in Coords, y2 \in Coords, cb \in BOOLEAN :
        capture_area(x1, y1, x2, y2, cb, "preview", "preview")

\* _on_upload_confirmed(temp_path), lines 396-400: the user confirms the preview;
\* an unconfigured service raises ValueError before upload_file is called, and
\* the finally clause goes on to the cleanup
on_upload_confirmed ==
    /\ uiPc = "preview"
    /\ route' = "confirm"
    /\ IF imagekit
       THEN uiPc' = "upload" /\ result' = result
       ELSE uiPc' = "cleanup" /\ result' = "ValueError"
    /\ UNCHANGED <<fsVars, aiVars, cfgVars, canvasVars, callVars, taskVars, attempt, calls, last_error,
                   clipboard>>

\* _on_preview_cancelled(temp_path), lines 414-417: the user cancels the preview
on_preview_cancelled ==
    /\ uiPc = "preview"
    /\ route' = "cancel"
    /\ uiPc' = "cleanup"
    /\ UNCHANGED <<fsVars, aiVars, cfgVars, canvasVars, callVars, taskVars, uploadVars>>

----------------------------------------------------------------------------
(* ImageKitService.upload_file(temp_path) *)

\* the url of the result that the n-th call to imagekit.upload_file returned
Url(n) == <<"url", n>>

\* upload_file without the existence check of lines 49-51: a missing file is
\* left to the retry loop
UploadStartUnchecked ==
    /\ uiPc = "upload"
    /\ IF ~ imagekit
       THEN uiPc' = "returned" /\ result' = "ValueError"
       ELSE uiPc' = "attempt" /\ result' = result
    /\ attempt' = 0
    /\ last_error' = None
    /\ UNCHANGED <<fsVars, aiVars, cfgVars, canvasVars, callVars, taskVars, calls, clipboard, route>>

\* lines 43-53: precondition failures raise at once; otherwise the loop starts
UploadStart ==
    /\ uiPc = "upload"
    /\ IF ~ imagekit
       THEN uiPc' = "returned" /\ result' = "ValueError"
       ELSE IF ~ Exists(TempPath)
            THEN uiPc' = "returned" /\ result' = "FileNotFoundError"
            ELSE uiPc' = "attempt" /\ result' = result
    /\ attempt' = 0
    /\ last_error' = None
    /\ UNCHANGED <<fsVars, aiVars, cfgVars, canvasVars, callVars, taskVars, calls, clipboard, route>>

\* what follows a failed attempt (lines 93-111): the next iteration while
\* attempts remain, else the aggregate failure is raised
AfterFailure(n) == IF n + 1 < MaxRetries THEN "attempt" ELSE "returned"

\* an aggregate failure that drops the error of the last attempt
FailureResultStale(n, err) == IF n + 1 < MaxRetries THEN None ELSE <<"Exception", None>>

FailureResult(n, err) == IF n + 1 < MaxRetries THEN None ELSE <<"Exception", err>>

\* lines 54-67, one iteration up to the open(): the file's existence is checked
\* again; a vanished file is this attempt's error, a present one is opened
UploadAttempt ==
    /\ uiPc = "attempt"
    /\ IF Exists(TempPath)
       THEN /\ openFile' = TempPath
            /\ uiPc' = "call"
            /\ UNCHANGED <<attempt, last_error, result>>
       ELSE /\ last_error' = "FileNotFoundError"
            /\ uiPc' = AfterFailure(attempt)
            /\ result' = FailureResult(attempt, "FileNotFoundError")
            /\ attempt' = attempt + 1
            /\ openFile' = openFile
    /\ UNCHANGED <<files, windows, aiVars, cfgVars, canvasVars, callVars, taskVars, calls, clipboard, route>>

\* lines 71-104: the call to the image host.  A result with a url is copied to
\* the clipboard and returned; anything else is this attempt's error.  The file
\* is closed on the way out of the with block either way
UploadCall ==
    /\ uiPc = "call"
    /\ \E outcome \in UploadOutcomes :
        /\ calls' = calls + 1
        /\ openFile' = None
        /\ IF outcome = "ok"
           THEN /\ clipboard' = Append(clipboard, Url(calls + 1))
                /\ result' = Url(calls + 1)
                /\ uiPc' = "returned"
                /\ UNCHANGED <<attempt, last_error>>
           ELSE /\ last_error' = <<outcome, calls + 1>>
                /\ uiPc' = AfterFailure(attempt)
                /\ result' = FailureResult(attempt, <<outcome, calls + 1>>)
                /\ attempt' = attempt + 1
                /\ clipboard' = clipboard
    /\ UNCHANGED <<files, windows, aiVars, cfgVars, canvasVars, callVars, taskVars, route>>

\* whether r is a url returned by upload_file
IsUrl(r) == r \in {Url(n) : n \in 1..MaxRetries}

\* the caller's clipboard copy after upload_file returned r:
\* _on_upload_confirmed runs pyperclip.copy(url) (line 402), _quick_capture
\* only shows a message
CallerCopies(rt, r) == IF rt = "confirm" /\ IsUrl(r) THEN <<r>> ELSE <<>>

\* upload_file is back in its caller: _quick_capture ends (lines 267-280),
\* _on_upload_confirmed goes on to its finally clause (lines 401-412)
UploadReturned ==
    /\ uiPc = "returned"
    /\ clipboard' = clipboard \o CallerCopies(route, result)
    /\ uiPc' = IF route = "confirm" THEN "cleanup" ELSE "done"
    /\ UNCHANGED <<fsVars, aiVars, cfgVars, canvasVars, callVars, taskVars, attempt, calls, last_error,
                   result, route>>

----------------------------------------------------------------------------
(* ImageHandler.cleanup_temp_file -> TempFileService.cleanup_file(temp_path) *)

\* lines 71-72: path.exists(); the method takes no lock
CleanupCheck ==
    /\ uiPc = "cleanup"
    /\ uiPc' = IF Exists(TempPath) THEN "unlink" ELSE "done"
    /\ UNCHANGED <<fsVars, aiVars, cfgVars, canvasVars, callVars, taskVars, uploadVars, route>>

\* line 73: path.unlink(); a file that vanished since the check raises, which
\* the handler of line 76 logs
CleanupUnlink ==
    /\ uiPc = "unlink"
    /\ files' = files \ {TempPath}
    /\ uiPc' = "done"
    /\ UNCHANGED <<openFile, windows, aiVars, cfgVars, canvasVars, callVars, taskVars, uploadVars, route>>

----------------------------------------------------------------------------
Next ==
    \/ quick_capture
    \/ preview_capture
    \/ on_upload_confirmed
    \/ on_preview_cancelled
    \/ UploadStart
    \/ UploadAttempt
    \/ UploadCall
    \/ UploadReturned
    \/ CleanupCheck
    \/ CleanupUnlink
    \/ TaskStart
    \/ AnalyzeOpenImage
    \/ AnalyzeSubmit
    \/ AnalyzeMinWait
    \/ GenerateContent
    \/ AnalyzeResult
    \/ AnalyzeTimeout
    \/ AnalyzeShutdown
    \/ TaskNamed
    \/ TaskCheck
    \/ TaskRename
    \/ TaskCallback
    \/ TaskRenameError

Spec == Init /\ [][Next]_vars

TypeOK ==
    /\ files \subseteq {TempPath, DefaultPath, DescribedPath}
    /\ openFile \in {None, TempPath}
    /\ aiState \in {"idle", "pending", "answered"}
    /\ response \in AIOutcomes \cup {None}
    /\ lock \in {"free", "task"}
    /\ attempt \in 0..MaxRetries
    /\ calls \in 0..MaxRetries
    /\ Len(cbLog) <= 2
    /\ Len(renames) <= 1
    /\ Len(clipboard) <= 2

----------------------------------------------------------------------------
(* Properties of the naming stage *)

\* upload_file has been entered and has not yet returned to its caller
Uploading == uiPc \in {"upload", "attempt", "call"}

\* the task has renamed the temp file
Renamed == renames # <<>>

\* every rename so far gave the default name
OnlyDefaultRenames == \A i \in 1..Len(renames) : renames[i] = <<TempPath, DefaultPath>>

\* C1: whenever a capture's background naming task has finished, the callback
\* passed with the capture has been invoked exactly once, and at no moment has
\* it been invoked twice.
C1_CallbackExactlyOnce ==
    callback =>
        /\ Len(cbLog) <= 1
        /\ taskPc = "done" => Len(cbLog) = 1

\* C2: upload_file never runs for a capture whose background naming task is
\* still pending.
C2_UploadAfterNaming ==
    Uploading => taskPc = "done"

\* C3: between the task's existence check and its rename call the file is not
\* deleted: when the task is about to call os.rename, the file it has just
\* checked is still there.
C3_NoDeleteBetweenCheckAndRename ==
    taskPc = "rename" => Exists(TempPath)

\* C4: when the AI collaborator never answers and the hard timeout has expired,
\* the task does not wait for the request any further: it has finished or can
\* take its next step, and when it has finished the file bears the default name
\* and the callback was invoked exactly once.
C4_TimeoutAbandonsRequest ==
    (timedOut /\ ~ aiAnswers) =>
        /\ taskPc = "done" \/ ENABLED TaskStep
        /\ taskPc = "done" =>
            /\ renames = << <<TempPath, DefaultPath>> >>
            /\ callback => cbLog = <<DefaultPath>>

\* C5: once the upload or cancel path has returned and the background task has
\* finished, no file of the capture is left in the temp directory.
C5_NoOrphanedFile ==
    (uiPc = "done" /\ taskPc = "done") => files = {}

\* C6: when the task finishes without having renamed the file, because the file
\* was gone at the rename step, the callback has been invoked with the original
\* temp path.
C6_MissingFileReported ==
    (taskPc = "done" /\ callback /\ ~ Renamed) => cbLog = <<TempPath>>

\* C7: at most one rename and at most one callback happen per capture, and
\* once the timeout has been taken no AI description is used: the late answer
\* yields no description, no rename to a described name and no callback with one.
C7_LateResultDiscarded ==
    /\ Len(renames) <= 1
    /\ Len(cbLog) <= 1
    /\ timedOut =>
        /\ description = None
        /\ OnlyDefaultRenames
        /\ \A i \in 1..Len(cbLog) : cbLog[i] # DescribedPath

\* C7 witness: the timeout was taken, the answer arrived late with text, and
\* the task finished with the default name delivered once
C7_Witness ==
    /\ timedOut
    /\ aiState = "answered"
    /\ response = "text"
    /\ taskPc = "done"
    /\ renames = << <<TempPath, DefaultPath>> >>
    /\ cbLog = <<DefaultPath>>

\* the AI path was taken and ended in an error: the image could not be read, or
\* the collaborator raised, or answered without usable text
AIFailed ==
    /\ use_gemini
    /\ is_initialized
    /\ ~ timedOut
    /\ \/ taskPc \in {"named", "check", "rename", "callback", "rename_error", "done"}
          /\ aiState = "idle"
       \/ aiState = "answered" /\ response # "text"
          /\ taskPc \in {"named", "check", "rename", "callback", "rename_error", "done"}

C9_NoRequestWhenDisabled ==
    (~ use_gemini_var \/ ~ is_initialized) =>
        /\ aiSubmits = 0
        /\ OnlyDefaultRenames

\* C10: when upload_file returned a url, it is the url of the last call made to
\* the image host, every earlier call failed, and the clipboard was given that
\* url exactly once.
C10_RetryThenSucceed ==
    (uiPc = "done" /\ IsUrl(result)) =>
        /\ result = Url(calls)
        /\ calls = attempt + 1
        /\ clipboard = <<result>>

\* upload_file has returned to its caller
Returned == uiPc \in {"returned", "cleanup", "unlink", "done"}

\* C11: when every attempt of upload_file has failed, exactly max_retries
\* attempts were made, each one either a failed call to the image host or a
\* file found missing, the result is one aggregate failure that carries the
\* error of the last attempt, no url is returned and the clipboard is untouched.
C11_AllAttemptsFail ==
    attempt = MaxRetries =>
        /\ Returned
        /\ calls <= MaxRetries
        /\ last_error # None
        /\ <<"Exception", last_error>> = result
        /\ last_error # "FileNotFoundError" => last_error[2] = calls
        /\ ~ IsUrl(result)
        /\ clipboard = <<>>

\* C11 witness: three calls to the image host failed, the last one with an
\* error, and the caller has the aggregate failure
C11_Witness ==
    /\ uiPc = "done"
    /\ attempt = MaxRetries
    /\ calls = MaxRetries
    /\ result = <<"Exception", <<"error", MaxRetries>> >>

\* upload_file found a precondition violated
PreconditionFailed == result = "ValueError" \/ result = "FileNotFoundError"

\* C12: the step that takes upload_file past the precondition checks, with the
\* service unconfigured or the file missing, returns at once with the
\* precondition's error; and after such a failure no call to the image host
\* was made, no attempt was counted and the clipboard is untouched.
C12_PreconditionFailsAtOnce ==
    /\ [](PreconditionFailed =>
            /\ calls = 0
            /\ attempt = 0
            /\ clipboard = <<>>)
    /\ [][(uiPc = "upload" /\ uiPc' # "upload" /\ (~ imagekit \/ ~ Exists(TempPath))) =>
            /\ uiPc' = "returned"
            /\ PreconditionFailed'
            /\ calls' = 0
            /\ clipboard' = <<>>]_vars

\* C12 witness: the task renamed the file before upload_file was entered, and
\* upload_file returned FileNotFoundError without a call
C12_Witness ==
    /\ uiPc = "done"
    /\ route = "quick"
    /\ imagekit
    /\ Renamed
    /\ result = "FileNotFoundError"
    /\ calls = 0

\* C13: upload_file deletes nothing, and once its caller has finished, on any
\* outcome, the temp file is no longer at its path.
C13_CallerDeletesTempFile ==
    /\ (Uploading \/ uiPc = "returned") => (Renamed \/ Exists(TempPath))
    /\ (uiPc = "done" /\ route \in {"quick", "confirm"}) => ~ Exists(TempPath)

----------------------------------------------------------------------------
(* ui/drawing_tools.py: DrawingElement, DrawingCanvas and the toolbar's lock *)
(* button.  Every method is a function from the canvas before the call to   *)
(* the canvas after it; the handlers below apply them.  A method that       *)
(* raises keeps the assignments it made before the raise; the exception     *)
(* itself is reported by Tk and leaves no trace in the canvas.  The canvas's *)
(* methods are called by its key and mouse bindings and by a toolbar whose  *)
(* canvas attribute is set.  The style attributes (color, fill, width,      *)
(* font, effect_strength) keep their defaults and are left out.             *)

\* class DrawingTool
DrawingTool == {"SELECT", "RECTANGLE", "ELLIPSE", "LINE", "ARROW", "FREEHAND", "TEXT",
                "SPEECH_BUBBLE", "COUNTER", "HIGHLIGHT", "PIXELATE", "GRAYSCALE"}

\* the tools the model's user picks; the canvas starts with SELECT
ToolChoices == {"SELECT", "RECTANGLE", "FREEHAND", "TEXT"}

\* pointer positions of the model's mouse events
Points == {<<10, 10>>}

\* the arrow keys and rotations of the model's user, as arguments of
\* move_selected and rotate_selected
Arrows == {<<-1, 0>>}
Rotations == {-5}

\* what TextInputDialog.text can be after the dialog: nothing, or a text
DialogTexts == {"", "t"}

\* objects the model lets the canvas create
MaxObjs == 3

\* move_selected and rotate_selected calls the model lets the user make
MaxEdits == 1

\* points the model lets a freehand stroke collect
MaxPoints == 1

\* the canvas as one value; raised is the exception a method ended with
Canvas ==
    [elements |-> elements, selected_elements |-> selected_elements,
     clipboard |-> canvas_clipboard, undo_stack |-> undo_stack,
     redo_stack |-> redo_stack, current_tool |-> current_tool, drawing |-> drawing,
     current_element |-> current_element, heap |-> heap, lists |-> lists,
     raised |-> None]

\* the ids an undo or redo entry refers to
PayloadIds(payload) ==
    IF payload[1] = "obj" THEN {payload[2]}
    ELSE IF payload[1] = "list" THEN {payload[2][i] : i \in 1..Len(payload[2])}
    ELSE {payload[2][1], payload[3][1]}

\* the objects the canvas refers to directly
Roots(c) ==
    {c.elements[i] : i \in 1..Len(c.elements)}
        \cup c.selected_elements
        \cup {c.clipboard[i] : i \in 1..Len(c.clipboard)}
        \cup (IF c.current_element = 0 THEN {} ELSE {c.current_element})
        \cup UNION {PayloadIds(c.undo_stack[i][2]) : i \in 1..Len(c.undo_stack)}
        \cup UNION {PayloadIds(c.redo_stack[i][2]) : i \in 1..Len(c.redo_stack)}

\* the objects reachable from the set S through the member lists of groups
RECURSIVE Reachable(_, _)
Reachable(c, S) ==
    LET T == S \cup UNION {{c.lists[c.heap[g].elements][i] :
                                i \in 1..Len(c.lists[c.heap[g].elements])} :
                            g \in {x \in S : c.heap[x].elements # 0}}
    IN  IF T = S THEN S ELSE Reachable(c, T)

\* an object, and a list, that nothing refers to any longer
Freed == [tool_type |-> None]

\* Python's reference counting: objects and lists without a reference are gone
Collect(c) ==
    LET live == Reachable(c, Roots(c))
        liveLists == {c.heap[i].points : i \in live}
                        \cup {c.heap[i].elements : i \in live}
    IN  [c EXCEPT !.heap = [i \in DOMAIN c.heap |->
                                IF i \in live THEN c.heap[i] ELSE Freed],
                  !.lists = [j \in DOMAIN c.lists |->
                                IF j \in liveLists THEN c.lists[j] ELSE <<>>]]

\* the handler leaves the canvas as c
Becomes(c) ==
    /\ elements' = c.elements
    /\ selected_elements' = c.selected_elements
    /\ canvas_clipboard' = c.clipboard
    /\ undo_stack' = c.undo_stack
    /\ redo_stack' = c.redo_stack
    /\ current_tool' = c.current_tool
    /\ drawing' = c.drawing
    /\ current_element' = c.current_element
    /\ heap' = Collect(c).heap
    /\ lists' = Collect(c).lists

\* a method returns normally, or raises exc
Returns(c) == [c EXCEPT !.raised = None]
Raises(c, exc) == [c EXCEPT !.raised = exc]

\* Python's "v or d" for an optional integer v: <<>> is None, <<n>> is n
OrElse(v, d) == IF v = <<>> \/ v[1] = 0 THEN d ELSE v[1]

\* DrawingElement.__init__, lines 27-43; points is the id of its new list
DrawingElement(tool_type, x1, y1, x2, y2, points) ==
    [tool_type |-> tool_type, x1 |-> x1, y1 |-> y1,
     x2 |-> OrElse(x2, x1), y2 |-> OrElse(y2, y1),
     fill |-> "", font |-> <<"Arial", 12>>,
     text |-> "", angle |-> 0, locked |-> FALSE, layer |-> 0, points |-> points,
     counter_value |-> 1, effect_strength |-> 10, elements |-> 0]

\* hasattr(element, 'elements'): only group_selected sets the attribute
IsGroup(e) == e.elements # 0

\* payloads of undo entries: an element, a list of elements, a pair of states
Obj(id) == <<"obj", id>>
ObjList(ids) == <<"list", ids>>
States(old, new) == <<"states", old, new>>

\* list.__contains__, list.remove (first occurrence) for a list of elements
Contains(seq, x) == \E i \in 1..Len(seq) : seq[i] = x
IndexOf(seq, x) == CHOOSE i \in 1..Len(seq) : seq[i] = x /\ \A j \in 1..(i - 1) : seq[j] # x
Remove(seq, x) ==
    LET i == IndexOf(seq, x)
    IN  SubSeq(seq, 1, i - 1) \o SubSeq(seq, i + 1, Len(seq))

\* whether elements.remove(payload) finds its operand: an element compares
\* equal only to itself, never to a list or a tuple
Finds(seq, payload) == payload[1] = "obj" /\ Contains(seq, payload[2])

\* line 398: a new DrawingElement and its points list
New(c, tool_type, x1, y1, x2, y2) ==
    [c EXCEPT !.heap = Append(@, DrawingElement(tool_type, x1, y1, x2, y2,
                                                 Len(c.lists) + 1)),
              !.lists = Append(@, <<>>)]

\* _start_drawing(event), lines 395-398
_start_drawing(c, x, y) ==
    LET n == New(c, c.current_tool, x, y, <<>>, <<>>)
    IN  Returns([n EXCEPT !.drawing = TRUE, !.current_element = Len(n.heap)])

\* _draw(event), lines 400-411
_draw(c, x, y) ==
    IF ~ c.drawing THEN Returns(c)
    ELSE IF c.current_element = 0 THEN Raises(c, "AttributeError")
    ELSE IF c.current_tool = "FREEHAND"
         THEN Returns([c EXCEPT !.lists[c.heap[c.current_element].points] =
                                     Append(@, <<x, y>>)])
         ELSE Returns([c EXCEPT !.heap[c.current_element].x2 = x,
                                !.heap[c.current_element].y2 = y])

\* lines 432-433: the highest counter_value among the counters of the list
RECURSIVE MaxCounter(_, _)
MaxCounter(c, i) ==
    IF i = 0 THEN 0
    ELSE LET e == c.heap[c.elements[i]]
             m == MaxCounter(c, i - 1)
         IN  IF e.tool_type = "COUNTER" /\ e.counter_value > m THEN e.counter_value ELSE m

\* a release that adds the element without recording it on the undo stack
_end_drawing_unrecorded(c, text) ==
    IF ~ c.drawing \/ c.current_element = 0 THEN Returns([c EXCEPT !.drawing = FALSE])
    ELSE Returns([c EXCEPT !.drawing = FALSE,
                           !.elements = Append(@, c.current_element),
                           !.redo_stack = <<>>,
                           !.current_element = 0])

\* _end_drawing(event), lines 413-444; text is what the dialog returned
_end_drawing(c, text) ==
    IF ~ c.drawing THEN Returns(c)
    ELSE LET d == [c EXCEPT !.drawing = FALSE]
             cur == c.current_element
         IN  IF cur = 0 THEN Returns(d)
             ELSE IF d.heap[cur].tool_type \in {"TEXT", "SPEECH_BUBBLE"} /\ text = ""
             THEN Returns([d EXCEPT !.current_element = 0])
             ELSE LET h == IF d.heap[cur].tool_type \in {"TEXT", "SPEECH_BUBBLE"}
                           THEN [d.heap EXCEPT ![cur].text = text]
                           ELSE IF d.heap[cur].tool_type = "COUNTER"
                           THEN [d.heap EXCEPT ![cur].counter_value =
                                     MaxCounter(d, Len(d.elements)) + 1]
                           ELSE d.heap
                  IN  Returns([d EXCEPT !.heap = h,
                                        !.elements = Append(@, cur),
                                        !.undo_stack = Append(@, <<"add", Obj(cur)>>),
                                        !.redo_stack = <<>>,
                                        !.current_element = 0])

\* _restore_element_state(state), lines 497-504; state is <<id, attributes>>
_restore_element_state(c, state) ==
    IF Contains(c.elements, state[1]) THEN [c EXCEPT !.heap[state[1]] = state[2]] ELSE c

\* undo(), lines 263-280
undo(c) ==
    IF c.undo_stack = <<>> THEN Returns(c)
    ELSE LET top == c.undo_stack[Len(c.undo_stack)]
             action == top[1]
             element == top[2]
             p == [c EXCEPT !.undo_stack = SubSeq(@, 1, Len(@) - 1)]
         IN  IF action = "add"
             THEN IF Finds(p.elements, element)
                  THEN Returns([p EXCEPT !.elements = Remove(@, element[2]),
                                         !.redo_stack = Append(@, <<"add", element>>)])
                  ELSE Raises(p, "ValueError")
             ELSE IF action = "delete"
             THEN Returns([p EXCEPT !.elements = Append(@, element[2]),
                                    !.redo_stack = Append(@, <<"delete", element>>)])
             ELSE IF action = "modify"
             THEN Returns([_restore_element_state(p, element[2]) EXCEPT
                              !.redo_stack = Append(@, <<"modify",
                                                 States(element[3], element[2])>>)])
             ELSE Returns(p)

\* redo(), lines 282-299
redo(c) ==
    IF c.redo_stack = <<>> THEN Returns(c)
    ELSE LET top == c.redo_stack[Len(c.redo_stack)]
             action == top[1]
             element == top[2]
             p == [c EXCEPT !.redo_stack = SubSeq(@, 1, Len(@) - 1)]
         IN  IF action = "add"
             THEN Returns([p EXCEPT !.elements = Append(@, element[2]),
                                    !.undo_stack = Append(@, <<"add", element>>)])
             ELSE IF action = "delete"
             THEN IF Finds(p.elements, element)
                  THEN Returns([p EXCEPT !.elements = Remove(@, element[2]),
                                         !.undo_stack = Append(@, <<"delete", element>>)])
                  ELSE Raises(p, "ValueError")
             ELSE IF action = "modify"
             THEN Returns([_restore_element_state(p, element[2]) EXCEPT
                              !.undo_stack = Append(@, <<"modify",
                                                 States(element[3], element[2])>>)])
             ELSE Returns(p)

\* the orders in which a for loop can visit the set S
Orders(S) ==
    {f \in [1..Cardinality(S) -> S] :
        \A i \in 1..Cardinality(S), j \in 1..Cardinality(S) : i # j => f[i] # f[j]}

\* the set of the members of a list
Range(seq) == {seq[i] : i \in 1..Len(seq)}

\* _clone_element(element), lines 506-514: the constructor, then every other
\* attribute of the original is assigned to the clone as it is
_clone_element(e) ==
    [e EXCEPT !.x2 = OrElse(<<e.x2>>, e.x1), !.y2 = OrElse(<<e.y2>>, e.y1)]

\* lines 318-322: the paste offset
Offset(e, dx, dy) ==
    [e EXCEPT !.x1 = @ + dx, !.y1 = @ + dy, !.x2 = @ + dx, !.y2 = @ + dy]

\* copy_selected(), lines 301-305; order is the set's iteration order
copy_selected(c, order) ==
    LET n == Len(order)
    IN  Returns([c EXCEPT
            !.heap = @ \o [i \in 1..n |-> _clone_element(c.heap[order[i]])],
            !.lists = @ \o [i \in 1..n |-> <<>>],
            !.clipboard = [i \in 1..n |-> Len(c.heap) + i]])

\* paste(), lines 307-327
paste(c) ==
    IF c.clipboard = <<>> THEN Returns(c)
    ELSE LET n == Len(c.clipboard)
             new_elements == [i \in 1..n |-> Len(c.heap) + i]
         IN  Returns([c EXCEPT
                 !.heap = @ \o [i \in 1..n |->
                                   Offset(_clone_element(c.heap[c.clipboard[i]]), 10, 10)],
                 !.lists = @ \o [i \in 1..n |-> <<>>],
                 !.elements = @ \o new_elements,
                 !.undo_stack = Append(@, <<"add", ObjList(new_elements)>>)])

\* a move that does not look at the locked flag
move_selected_locked(c, dx, dy) ==
    IF c.selected_elements = {} THEN Returns(c)
    ELSE Returns([c EXCEPT !.heap =
            [i \in DOMAIN c.heap |->
                IF i \in c.selected_elements
                THEN Offset(c.heap[i], dx, dy)
                ELSE c.heap[i]]])

\* move_selected(dx, dy), lines 329-343
move_selected(c, dx, dy) ==
    IF c.selected_elements = {} THEN Returns(c)
    ELSE Returns([c EXCEPT !.heap =
            [i \in DOMAIN c.heap |->
                IF i \in c.selected_elements /\ ~ c.heap[i].locked
                THEN Offset(c.heap[i], dx, dy)
                ELSE c.heap[i]]])

\* rotate_selected(angle_delta), lines 345-355
rotate_selected(c, angle_delta) ==
    IF c.selected_elements = {} THEN Returns(c)
    ELSE Returns([c EXCEPT !.heap =
            [i \in DOMAIN c.heap |->
                IF i \in c.selected_elements /\ ~ c.heap[i].locked
                THEN [c.heap[i] EXCEPT !.angle = (@ + angle_delta) % 360]
                ELSE c.heap[i]]])

\* DrawingToolbar._toggle_lock(), lines 177-182
_toggle_lock(c) ==
    Returns([c EXCEPT !.heap =
        [i \in DOMAIN c.heap |->
            IF i \in c.selected_elements
            THEN [c.heap[i] EXCEPT !.locked = ~ @]
            ELSE c.heap[i]]])

\* lines 378-379 and 389: list.remove for each member in turn, up to the first
\* one that is not in the list; <<the list then, whether all were found>>
RECURSIVE RemoveEach(_, _)
RemoveEach(seq, order) ==
    IF order = <<>> THEN <<seq, TRUE>>
    ELSE IF Contains(seq, Head(order))
         THEN RemoveEach(Remove(seq, Head(order)), Tail(order))
         ELSE <<seq, FALSE>>

\* group_selected(), lines 371-382; order is the set's iteration order
group_selected(c, order) ==
    IF Cardinality(c.selected_elements) < 2 THEN Returns(c)
    ELSE LET n == New(c, "SELECT", 0, 0, <<>>, <<>>)
             group == Len(n.heap)
             m == [n EXCEPT !.lists = Append(@, order),
                            !.heap[group].elements = Len(n.lists) + 1]
             r == RemoveEach(m.elements, order)
         IN  IF r[2]
             THEN Returns([m EXCEPT !.elements = Append(r[1], group),
                                    !.selected_elements = {group}])
             ELSE Raises([m EXCEPT !.elements = r[1]], "ValueError")

\* the selected groups of ungroup_selected, in iteration order
Groups(c, order) == SelectSeq(order, LAMBDA id : IsGroup(c.heap[id]))

\* lines 387-390: the members of the groups that were removed, in order
RECURSIVE Members(_, _)
Members(c, groups) ==
    IF groups = <<>> THEN <<>>
    ELSE c.lists[c.heap[Head(groups)].elements] \o Members(c, Tail(groups))

\* ungroup_selected(), lines 384-393; order is the set's iteration order
ungroup_selected(c, order) ==
    LET r == RemoveEach(c.elements, Groups(c, order))
        new_elements == Members(c, Groups(c, order))
    IN  IF r[2]
        THEN Returns([c EXCEPT !.elements = r[1] \o new_elements,
                               !.selected_elements = Range(new_elements)])
        ELSE Raises([c EXCEPT !.elements = r[1]], "ValueError")

\* _point_to_line_distance(x, y, x1, y1, x2, y2) < 5, lines 551-576, in
\* integers: both sides of the comparison squared
LineHit(x, y, x1, y1, x2, y2) ==
    LET A == x - x1
        B == y - y1
        C == x2 - x1
        D == y2 - y1
        dot == A * C + B * D
        len_sq == C * C + D * D
    IN  IF len_sq = 0 THEN A * A + B * B < 25
        ELSE IF dot < 0 THEN A * A + B * B < 25
        ELSE IF dot > len_sq THEN (x - x2) * (x - x2) + (y - y2) * (y - y2) < 25
        ELSE (A * D - C * B) * (A * D - C * B) < 25 * len_sq

\* _is_point_in_element(element, x, y), lines 540-554
_is_point_in_element(e, x, y) ==
    IF e.tool_type \in {"RECTANGLE", "ELLIPSE", "HIGHLIGHT", "PIXELATE", "GRAYSCALE"}
    THEN /\ Min(e.x1, e.x2) <= x /\ x <= Max(e.x1, e.x2)
         /\ Min(e.y1, e.y2) <= y /\ y <= Max(e.y1, e.y2)
    ELSE IF e.tool_type \in {"LINE", "ARROW"}
    THEN LineHit(x, y, e.x1, e.y1, e.x2, e.y2)
    ELSE FALSE

\* _find_element_at(x, y), lines 533-538: an id, or 0 for None
_find_element_at(c, x, y) ==
    LET hits == {i \in 1..Len(c.elements) :
                    _is_point_in_element(c.heap[c.elements[i]], x, y)}
    IN  IF hits = {} THEN 0
        ELSE c.elements[CHOOSE i \in hits : \A j \in hits : j <= i]

\* _add_to_selection(event), lines 516-521
_add_to_selection(c, x, y) ==
    LET element == _find_element_at(c, x, y)
    IN  IF element # 0
        THEN Returns([c EXCEPT !.selected_elements = @ \cup {element}])
        ELSE Returns(c)

\* _toggle_selection(event), lines 523-531
_toggle_selection(c, x, y) ==
    LET element == _find_element_at(c, x, y)
    IN  IF element = 0 THEN Returns(c)
        ELSE IF element \in c.selected_elements
        THEN Returns([c EXCEPT !.selected_elements = @ \ {element}])
        ELSE Returns([c EXCEPT !.selected_elements = @ \cup {element}])

\* line 249: the Delete key calls self.delete_selected(), which neither
\* DrawingCanvas nor tk.Canvas defines
delete_selected(c) == Raises(c, "AttributeError")

\* PreviewWindow._on_tool_selected(tool), preview_window.py lines 167-169
_on_tool_selected(c, tool) == Returns([c EXCEPT !.current_tool = tool])

----------------------------------------------------------------------------
(* The canvas's handlers: the bindings of _bind_events (lines 237-261), the *)
(* toolbar's buttons, and the tool buttons of the preview window            *)

\* <Button-1>
Button1Press ==
    /\ Len(heap) < MaxObjs
    /\ \E p \in Points : Becomes(_start_drawing(Canvas, p[1], p[2]))
    /\ UNCHANGED <<pipeVars, callVars, edits>>

\* <B1-Motion>
B1Motion ==
    /\ current_element # 0 => Len(lists[heap[current_element].points]) < MaxPoints
    /\ \E p \in Points : Becomes(_draw(Canvas, p[1], p[2]))
    /\ UNCHANGED <<pipeVars, callVars, edits>>

\* <ButtonRelease-1>
ButtonRelease1 ==
    /\ \E text \in DialogTexts : Becomes(_end_drawing(Canvas, text))
    /\ UNCHANGED <<pipeVars, callVars, edits>>

\* <Control-z>
KeyControlZ ==
    /\ Becomes(undo(Canvas))
    /\ UNCHANGED <<pipeVars, callVars, edits>>

\* <Control-y>
KeyControlY ==
    /\ Becomes(redo(Canvas))
    /\ UNCHANGED <<pipeVars, callVars, edits>>

\* <Control-c>
KeyControlC ==
    /\ Len(heap) + Cardinality(selected_elements) <= MaxObjs
    /\ \E order \in Orders(selected_elements) : Becomes(copy_selected(Canvas, order))
    /\ UNCHANGED <<pipeVars, callVars, edits>>

\* <Control-v>
KeyControlV ==
    /\ Len(heap) + Len(canvas_clipboard) <= MaxObjs
    /\ Becomes(paste(Canvas))
    /\ UNCHANGED <<pipeVars, callVars, edits>>

\* <Delete>
KeyDelete ==
    /\ Becomes(delete_selected(Canvas))
    /\ UNCHANGED <<pipeVars, callVars, edits>>

\* <Shift-Button-1>
ShiftButton1 ==
    /\ \E p \in Points : Becomes(_add_to_selection(Canvas, p[1], p[2]))
    /\ UNCHANGED <<pipeVars, callVars, edits>>

\* <Control-Button-1>
ControlButton1 ==
    /\ \E p \in Points : Becomes(_toggle_selection(Canvas, p[1], p[2]))
    /\ UNCHANGED <<pipeVars, callVars, edits>>

\* a call that moves or rotates something counts as an edit
Edited == IF selected_elements = {} THEN edits ELSE edits + 1

\* <Left>, <Right>, <Up>, <Down>
KeyArrow ==
    /\ edits < MaxEdits
    /\ \E d \in Arrows :
        Becomes(move_selected(Canvas, d[1], d[2]))
    /\ edits' = Edited
    /\ UNCHANGED <<pipeVars, callVars>>

\* <Control-bracketleft>, <Control-bracketright>
KeyControlBracket ==
    /\ edits < MaxEdits
    /\ \E angle_delta \in Rotations : Becomes(rotate_selected(Canvas, angle_delta))
    /\ edits' = Edited
    /\ UNCHANGED <<pipeVars, callVars>>

\* the toolbar's Group button
GroupButton ==
    /\ Len(heap) < MaxObjs
    /\ \E order \in Orders(selected_elements) : Becomes(group_selected(Canvas, order))
    /\ UNCHANGED <<pipeVars, callVars, edits>>

\* the toolbar's Ungroup button
UngroupButton ==
    /\ \E order \in Orders(selected_elements) : Becomes(ungroup_selected(Canvas, order))
    /\ UNCHANGED <<pipeVars, callVars, edits>>

\* the toolbar's Lock button
LockButton ==
    /\ Becomes(_toggle_lock(Canvas))
    /\ UNCHANGED <<pipeVars, callVars, edits>>

\* a tool button, clicked with the mouse that a stroke in progress holds
ToolButton ==
    /\ ~ drawing
    /\ \E tool \in ToolChoices : Becomes(_on_tool_selected(Canvas, tool))
    /\ UNCHANGED <<pipeVars, callVars, edits>>

\* a preview window is open on a capture and the user annotates it
InitCanvas ==
    /\ Init
    /\ ~ windows
    /\ ~ is_initialized
    /\ ~ aiAnswers
    /\ ~ imagekit
    /\ ~ use_gemini_var

NextCanvas ==
    \/ Button1Press
    \/ B1Motion
    \/ ButtonRelease1
    \/ KeyControlZ
    \/ KeyControlY
    \/ KeyControlC
    \/ KeyControlV
    \/ KeyDelete
    \/ ShiftButton1
    \/ ControlButton1
    \/ KeyArrow
    \/ KeyControlBracket
    \/ GroupButton
    \/ UngroupButton
    \/ LockButton
    \/ ToolButton

SpecCanvas == InitCanvas /\ [][NextCanvas]_vars

----------------------------------------------------------------------------
(* Properties of the canvas.  A property of a method is stated of the       *)
(* method's result on the canvas of every reachable state.                  *)

\* C14: in every state a release of the pointer adds exactly one element, or
\* none when the stroke is discarded or no stroke is in progress, and an undo()
\* right after a release that added an element returns without error to the
\* element count before the release.
C14_StrokeAddsOne ==
    \A text \in DialogTexts :
        LET c == _end_drawing(Canvas, text)
        IN  /\ Len(c.elements) \in {Len(elements), Len(elements) + 1}
            /\ Len(c.elements) = Len(elements) + 1 =>
                /\ undo(c).raised = None
                /\ Len(undo(c).elements) = Len(elements)

\* C14 witness: the first stroke was accepted and undone, and a second stroke
\* is in progress
C14_Witness ==
    /\ drawing
    /\ current_element = 2
    /\ elements = <<>>
    /\ undo_stack = <<>>
    /\ redo_stack = << <<"add", Obj(1)>> >>

\* C15: whenever the undo stack holds an action, undo() followed at once by
\* redo() completes without error and leaves the element list, with its order,
\* and the attributes of every element as they were before the undo.
C15_UndoRedoRestores ==
    undo_stack # <<>> =>
        LET u == undo(Canvas)
            r == redo(u)
        IN  /\ u.raised = None
            /\ r.raised = None
            /\ r.elements = elements
            /\ r.heap = heap

\* the scene of a canvas: its element list and the attributes of its members
Scene(c) == <<c.elements, [i \in 1..Len(c.elements) |-> c.heap[c.elements[i]]]>>

\* C16: a release that adds an element, a paste, a move, a rotation, a
\* grouping or an ungrouping that changes the scene leaves the redo stack empty.
C16_NewActionClearsRedo ==
    LET Cleared(c) == Scene(c) # Scene(Canvas) => c.redo_stack = <<>>
    IN  /\ \A text \in DialogTexts : Cleared(_end_drawing(Canvas, text))
        /\ Cleared(paste(Canvas))
        /\ \A d \in Arrows : Cleared(move_selected(Canvas, d[1], d[2]))
        /\ \A a \in Rotations : Cleared(rotate_selected(Canvas, a))
        /\ \A order \in Orders(selected_elements) :
            /\ Cleared(group_selected(Canvas, order))
            /\ Cleared(ungroup_selected(Canvas, order))

\* C17: a paste of a non-empty clipboard pushes exactly one "add" entry, and an
\* undo() right after it returns without error and leaves the element list as
\* it was before the paste.
C17_PasteUndoneAtOnce ==
    canvas_clipboard # <<>> =>
        LET p == paste(Canvas)
            u == undo(p)
        IN  /\ Len(p.undo_stack) = Len(undo_stack) + 1
            /\ p.undo_stack[Len(p.undo_stack)][1] = "add"
            /\ Len(p.elements) = Len(elements) + Len(canvas_clipboard)
            /\ u.raised = None
            /\ u.elements = elements

\* C18: with elements selected, delete_selected() returns without error,
\* removes every selected element from the list, pushes an undo entry and
\* leaves the selection empty.
C18_DeleteRemovesSelection ==
    selected_elements # {} =>
        LET d == delete_selected(Canvas)
        IN  /\ d.raised = None
            /\ \A i \in 1..Len(d.elements) : d.elements[i] \notin selected_elements
            /\ Len(d.undo_stack) > Len(undo_stack)
            /\ d.selected_elements = {}

\* C19: with two or more elements selected, group_selected() followed at once
\* by ungroup_selected() completes without error and leaves a list with the
\* same elements as before the grouping, each once and with its attributes
\* unchanged, and without the group.
C19_GroupUngroupRestores ==
    Cardinality(selected_elements) >= 2 =>
        \A order \in Orders(selected_elements) :
            LET g == group_selected(Canvas, order)
            IN  \A again \in Orders(g.selected_elements) :
                    LET u == ungroup_selected(g, again)
                    IN  /\ g.raised = None
                        /\ u.raised = None
                        /\ Len(u.elements) = Len(elements)
                        /\ Range(u.elements) = Range(elements)
                        /\ \A id \in Range(elements) : u.heap[id] = heap[id]

\* the arguments the key bindings pass to move_selected and rotate_selected
AllArrows == {<<-1, 0>>, <<1, 0>>, <<0, -1>>, <<0, 1>>}
AllRotations == {-5, 5}

\* an object that a move or a rotation has to change
Unlocked(i) == i \in selected_elements /\ ~ heap[i].locked

\* C20: move_selected and rotate_selected return without error, shift the
\* coordinates (turn the angle) of every selected element that is not locked
\* and of nothing else, and leave every locked or unselected element as it was.
C20_EditsOnlyUnlockedSelection ==
    /\ \A d \in AllArrows :
        LET m == move_selected(Canvas, d[1], d[2])
        IN  /\ m.raised = None
            /\ \A i \in DOMAIN heap :
                IF Unlocked(i)
                THEN /\ m.heap[i] = Offset(heap[i], d[1], d[2])
                     /\ m.heap[i] # heap[i]
                ELSE m.heap[i] = heap[i]
    /\ \A a \in AllRotations :
        LET t == rotate_selected(Canvas, a)
        IN  /\ t.raised = None
            /\ \A i \in DOMAIN heap :
                IF Unlocked(i)
                THEN /\ t.heap[i] = [heap[i] EXCEPT !.angle = (@ + a) % 360]
                     /\ t.heap[i] # heap[i]
                ELSE t.heap[i] = heap[i]

\* C20 witness: of two selected rectangles the unlocked one was moved by the
\* Left key, the locked one and an unselected element were not
C20_Witness ==
    /\ edits = 1
    /\ \E a \in selected_elements, b \in selected_elements :
        /\ heap[a].locked /\ heap[a].x1 = 10 /\ heap[a].x2 = 10
        /\ ~ heap[b].locked /\ heap[b].x1 = 9 /\ heap[b].x2 = 9
    /\ \E i \in 1..Len(elements) :
        /\ elements[i] \notin selected_elements
        /\ heap[elements[i]].x1 = 10

\* a click of button 1 without a modifier key: <Button-1> and <ButtonRelease-1>
\* are its only bindings (lines 240-242)
PlainClick(c, x, y, text) == _end_drawing(_start_drawing(c, x, y), text)

\* C21: a click on a point that some element of the list contains selects by
\* modifier: without one the selection becomes exactly the topmost element
\* under the point and the scene stays as it is, with shift that element is
\* added to the selection, with ctrl its membership is toggled.
C21_SelectByModifier ==
    \A p \in Points :
        LET hit == _find_element_at(Canvas, p[1], p[2])
            shift == _add_to_selection(Canvas, p[1], p[2])
            ctrl == _toggle_selection(Canvas, p[1], p[2])
        IN  (hit # 0 /\ ~ drawing) =>
                /\ shift.selected_elements = selected_elements \cup {hit}
                /\ ctrl.selected_elements =
                       IF hit \in selected_elements
                       THEN selected_elements \ {hit}
                       ELSE selected_elements \cup {hit}
                /\ \A text \in DialogTexts :
                    LET plain == PlainClick(Canvas, p[1], p[2], text)
                    IN  current_tool = "SELECT" =>
                            /\ plain.selected_elements = {hit}
                            /\ plain.elements = elements

\* the points list of an object, and the canvas after a point was appended to
\* the points list of object id
PointsOf(c, id) == c.lists[c.heap[id].points]
WithPoint(c, id) == [c EXCEPT !.lists[c.heap[id].points] = Append(@, <<0, 0>>)]

\* C27: after copy_selected() every copy has a points list of its own: a point
\* appended to the original's list does not appear in the copy's, and a point
\* appended to the copy's does not appear in the original's.
C27_CloneSharesNothing ==
    \A order \in Orders(selected_elements) :
        LET c == copy_selected(Canvas, order)
        IN  \A i \in 1..Len(order) :
                /\ PointsOf(WithPoint(c, order[i]), c.clipboard[i]) = PointsOf(c, c.clipboard[i])
                /\ PointsOf(WithPoint(c, c.clipboard[i]), order[i]) = PointsOf(c, order[i])

\* C29: while a stroke is in progress a press of the pointer leaves the
\* in-progress element as it is, and a motion of the pointer with no stroke in
\* progress changes nothing.
C29_PressDuringStrokeIgnored ==
    \A p \in Points :
        /\ drawing => _start_drawing(Canvas, p[1], p[2]).current_element = current_element
        /\ ~ drawing => _draw(Canvas, p[1], p[2]) = Canvas

\* C30: a release that ends a freehand stroke of at most one point leaves the
\* element list, the undo stack and the redo stack unchanged.
C30_ShortFreehandDiscarded ==
    (/\ drawing
     /\ current_element # 0
     /\ heap[current_element].tool_type = "FREEHAND"
     /\ Len(PointsOf(Canvas, current_element)) <= 1) =>
                \A text \in DialogTexts :
                    LET c == _end_drawing(Canvas, text)
                    IN  /\ c.elements = elements
                        /\ c.undo_stack = undo_stack
                        /\ c.redo_stack = redo_stack

----------------------------------------------------------------------------
(* Strokes dragged between corners whose coordinates include 0, copied and *)
(* pasted                                                                   *)

\* the pointer positions of a drag: the canvas origin and a point off it
Corners == {<<0, 0>>, <<5, 5>>}

\* <Button-1> at a corner
CornerPress ==
    /\ Len(heap) < MaxObjs
    /\ \E p \in Corners : Becomes(_start_drawing(Canvas, p[1], p[2]))
    /\ UNCHANGED <<pipeVars, callVars, edits>>

\* <B1-Motion> to a corner
CornerMotion ==
    /\ current_element # 0 => Len(lists[heap[current_element].points]) < MaxPoints
    /\ \E p \in Corners : Becomes(_draw(Canvas, p[1], p[2]))
    /\ UNCHANGED <<pipeVars, callVars, edits>>

\* <Shift-Button-1> at a corner
CornerShiftButton1 ==
    /\ \E p \in Corners : Becomes(_add_to_selection(Canvas, p[1], p[2]))
    /\ UNCHANGED <<pipeVars, callVars, edits>>

NextShapes ==
    \/ ToolButton
    \/ CornerPress
    \/ CornerMotion
    \/ ButtonRelease1
    \/ CornerShiftButton1
    \/ KeyControlC
    \/ KeyControlV

SpecShapes == InitCanvas /\ [][NextShapes]_vars

\* the attributes of an element other than its containers
Attributes(e) == [e EXCEPT !.points = 0, !.elements = 0]

\* C28: when the selection is copied and then pasted, the element pasted for
\* each copied element has the copied element's attributes with x1, y1, x2 and
\* y2 increased by 10, whatever the coordinates are, and no element that
\* existed before is changed.
C28_PasteOffsetsByTen ==
    \A order \in Orders(selected_elements) :
        LET c == copy_selected(Canvas, order)
            d == paste(c)
        IN  /\ Len(d.elements) = Len(elements) + Len(order)
            /\ \A i \in 1..Len(order) :
                Attributes(d.heap[d.elements[Len(elements) + i]]) =
                    Attributes(Offset(heap[order[i]], 10, 10))
            /\ \A j \in DOMAIN heap : d.heap[j] = heap[j]

----------------------------------------------------------------------------
(* Painting: the canvas's redraw and the preview window's _save_image.  An  *)
(* image is the sequence of the marks made on the captured pixels.          *)

\* sorted(elements, key=lambda e: e.layer) of the first n elements of the
\* list: Python's sort is stable
RECURSIVE SortedByLayer(_, _)
SortedByLayer(c, n) ==
    IF n = 0 THEN <<>>
    ELSE LET s == SortedByLayer(c, n - 1)
             e == c.elements[n]
             k == Cardinality({i \in 1..Len(s) : c.heap[s[i]].layer <= c.heap[e].layer})
         IN  SubSeq(s, 1, k) \o <<e>> \o SubSeq(s, k + 1, Len(s))

\* the list in the order in which it was built
insertion_order(c) == c.elements

\* preview_window.py line 180, drawing_tools.py line 585
sorted_elements(c) == SortedByLayer(c, Len(c.elements))

\* _update_canvas(), lines 578-590: the elements drawn, in the order drawn
_update_canvas(c) ==
    sorted_elements(c) \o (IF c.current_element # 0 THEN <<c.current_element>> ELSE <<>>)

\* Pillow's Image.crop of an unpinned release: a box whose right is less than
\* its left, or lower less than upper, raises ValueError in the releases that
\* check the box and is an empty region in those that do not
PillowBuilds == {"crop checks the box", "crop clips the box"}

\* the size of the region that crop((x1, y1, x2, y2)) returns
Region(e) == <<Max(e.x2 - e.x1, 0), Max(e.y2 - e.y1, 0)>>

\* whether crop((x1, y1, x2, y2)) raises
CropRaises(e, build) ==
    build = "crop checks the box" /\ (e.x2 < e.x1 \/ e.y2 < e.y1)

\* one iteration of the loop of _save_image, lines 184-227: the marks element
\* id leaves on the image, or the exception the iteration ends with
Paint(c, id, build) ==
    LET e == c.heap[id]
        box == <<e.x1, e.y1, e.x2, e.y2>>
        region == Region(e)
        size == <<region[1] \div e.effect_strength, region[2] \div e.effect_strength>>
        none == [marks |-> <<>>, raised |-> None]
    IN  IF e.tool_type \in {"RECTANGLE", "ELLIPSE"}
        THEN \* ImageDraw resolves a fill that is a string with ImageColor.getrgb,
             \* to which the empty string is an unknown colour specifier
             IF e.fill = "" THEN [none EXCEPT !.raised = "ValueError"]
             ELSE [none EXCEPT !.marks = <<<<"rectangle", id, box>>>>]
        ELSE IF e.tool_type = "LINE"
        THEN [none EXCEPT !.marks = <<<<"line", id, box>>>>]
        ELSE IF e.tool_type = "ARROW"
        THEN [none EXCEPT !.marks = <<<<"line", id, box>>, <<"polygon", id, box>>>>]
        ELSE IF e.tool_type = "FREEHAND"
        THEN IF Len(c.lists[e.points]) > 1
             THEN [none EXCEPT !.marks = <<<<"line", id, c.lists[e.points]>>>>]
             ELSE none
        ELSE IF e.tool_type = "TEXT"
        THEN \* ImageDraw.text asks the font for a mask; the font is a tuple
             [none EXCEPT !.raised = "AttributeError"]
        ELSE IF e.tool_type = "PIXELATE"
        THEN IF CropRaises(e, build) THEN [none EXCEPT !.raised = "ValueError"]
             ELSE IF size[1] > 0 /\ size[2] > 0
             THEN [none EXCEPT !.marks = <<<<"pixelate", id, box, size>>>>]
             ELSE none
        ELSE IF e.tool_type = "GRAYSCALE"
        THEN IF CropRaises(e, build) THEN [none EXCEPT !.raised = "ValueError"]
             ELSE IF region[1] > 0 /\ region[2] > 0
             THEN [none EXCEPT !.marks = <<<<"grayscale", id, box>>>>]
             ELSE none   \* an empty region is pasted: no pixel changes
        ELSE none

\* the loop of _save_image over the elements of order, drawing on the image img
RECURSIVE DrawEach(_, _, _, _)
DrawEach(c, order, img, build) ==
    IF order = <<>> THEN [result |-> img, raised |-> None]
    ELSE LET p == Paint(c, Head(order), build)
         IN  IF p.raised # None THEN [result |-> img, raised |-> p.raised]
             ELSE DrawEach(c, Tail(order), img \o p.marks, build)

\* a _save_image that draws on the window's image itself
_save_image_in_place(c, image, build) ==
    LET r == DrawEach(c, SortedByLayer(c, Len(c.elements)), image, build)
    IN  [canvas |-> c, image |-> r.result, result |-> r.result, raised |-> r.raised]

\* PreviewWindow._save_image(), preview_window.py lines 171-229, on the canvas
\* c and the window's image: what it leaves of both, what it returns or raises
_save_image(c, image, build) ==
    LET r == DrawEach(c, sorted_elements(c), image, build)
    IN  [canvas |-> c, image |-> image, result |-> r.result, raised |-> r.raised]

\* max(...) and min(...) of the layers of the list, with default=0
TopLayer(c) ==
    IF c.elements = <<>> THEN 0
    ELSE CHOOSE m \in {c.heap[i].layer : i \in Range(c.elements)} :
            \A i \in Range(c.elements) : c.heap[i].layer <= m
BottomLayer(c) ==
    IF c.elements = <<>> THEN 0
    ELSE CHOOSE m \in {c.heap[i].layer : i \in Range(c.elements)} :
            \A i \in Range(c.elements) : c.heap[i].layer >= m

\* bring_to_front(element), lines 357-362; element 0 is None
bring_to_front(c, element) ==
    IF element # 0 /\ Contains(c.elements, element)
    THEN Returns([c EXCEPT !.heap[element].layer = TopLayer(c) + 1])
    ELSE Returns(c)

\* send_to_back(element), lines 364-369
send_to_back(c, element) ==
    IF element # 0 /\ Contains(c.elements, element)
    THEN Returns([c EXCEPT !.heap[element].layer = BottomLayer(c) - 1])
    ELSE Returns(c)

\* next(iter(selected_elements), None): any member of the set, None if empty
NextOf(S) == IF S = {} THEN {0} ELSE S

\* the tools whose elements are painted, the pointer positions of their drags,
\* the number of elements drawn and the highest layer given
PaintTools == {"LINE", "RECTANGLE", "PIXELATE", "GRAYSCALE"}
Drags == {<<0, 0>>, <<0, 20>>, <<20, 20>>}
MaxPainted == 2
MaxLayer == 1

\* a tool button of the toolbar
PaintToolButton ==
    /\ ~ drawing
    /\ \E tool \in PaintTools : Becomes(_on_tool_selected(Canvas, tool))
    /\ UNCHANGED <<pipeVars, callVars, edits>>

\* <Button-1>
DragPress ==
    /\ Len(heap) < MaxPainted
    /\ \E p \in Drags : Becomes(_start_drawing(Canvas, p[1], p[2]))
    /\ UNCHANGED <<pipeVars, callVars, edits>>

\* <B1-Motion>
DragMotion ==
    /\ \E p \in Drags : Becomes(_draw(Canvas, p[1], p[2]))
    /\ UNCHANGED <<pipeVars, callVars, edits>>

\* <Shift-Button-1>
DragShiftButton1 ==
    /\ \E p \in Drags : Becomes(_add_to_selection(Canvas, p[1], p[2]))
    /\ UNCHANGED <<pipeVars, callVars, edits>>

\* the toolbar's Bring Forward button, lines 113-115
BringForwardButton ==
    /\ TopLayer(Canvas) < MaxLayer
    /\ \E element \in NextOf(selected_elements) : Becomes(bring_to_front(Canvas, element))
    /\ UNCHANGED <<pipeVars, callVars, edits>>

\* the toolbar's Send Back button, lines 116-118
SendBackButton ==
    /\ BottomLayer(Canvas) > - MaxLayer
    /\ \E element \in NextOf(selected_elements) : Becomes(send_to_back(Canvas, element))
    /\ UNCHANGED <<pipeVars, callVars, edits>>

NextFlatten ==
    \/ PaintToolButton
    \/ DragPress
    \/ DragMotion
    \/ ButtonRelease1
    \/ DragShiftButton1
    \/ BringForwardButton
    \/ SendBackButton

SpecFlatten == InitCanvas /\ [][NextFlatten]_vars

----------------------------------------------------------------------------
(* Properties of painting                                                   *)

\* the window's image before anything is drawn on it
Captured == <<>>

InPaintOrder(seq) ==
    \A a \in 1..Len(seq), b \in 1..Len(seq) :
        a < b =>
            \/ seq[a] = seq[b]
            \/ heap[seq[a]].layer < heap[seq[b]].layer
            \/ /\ heap[seq[a]].layer = heap[seq[b]].layer
               /\ IndexOf(elements, seq[a]) < IndexOf(elements, seq[b])

\* the elements that made the marks of an image, in the order of the marks
Painters(img) == [k \in 1..Len(img) |-> img[k][2]]

Degenerate(e) ==
    /\ e.tool_type \in {"PIXELATE", "GRAYSCALE"}
    /\ e.x2 = e.x1 \/ e.y2 = e.y1

\* the canvas without the i-th element of its list
Without(c, i) == [c EXCEPT !.elements = SubSeq(@, 1, i - 1) \o SubSeq(@, i + 1, Len(@))]

\* C24: a pixelate or grayscale element without width or without height makes
\* no difference to _save_image: with it in the list the call ends as it ends
\* without it, with the same marks on the image.
C24_DegenerateBoxSkipped ==
    \A build \in PillowBuilds :
        \A i \in 1..Len(elements) :
            Degenerate(heap[elements[i]]) =>
                LET with == _save_image(Canvas, Captured, build)
                    without == _save_image(Without(Canvas, i), Captured, build)
                IN  /\ with.raised = without.raised
                    /\ with.result = without.result

----------------------------------------------------------------------------
(* The two capture_area methods: that of utils/imaging.py and that of       *)
(* services/image_handler.py, the ImageHandler app.py constructs            *)

\* the selections a drag over the coordinates can give
Selections == Coords \X Coords \X Coords \X Coords

\* (None, None)
Sentinel == <<None, None>>

\* utils/imaging.py, capture_area(area), lines 151-195: what it grabbed, saved,
\* started and returned
imaging_capture_area(a) ==
    IF AreaAccepted(a[1], a[2], a[3], a[4])
    THEN [by |-> "utils.imaging", bbox |-> <<Min(a[1], a[3]), Min(a[2], a[4]),
                                             Max(a[1], a[3]), Max(a[2], a[4])>>,
          saved |-> {TempPath}, task |-> TRUE,
          returned |-> <<TempPath, "screenshot">>, raised |-> None]
    ELSE [by |-> "utils.imaging", bbox |-> <<>>, saved |-> {}, task |-> FALSE,
          returned |-> Sentinel, raised |-> None]

\* whether ImageGrab.grab(bbox) and screenshot.save go through: a box with
\* right > left and lower > upper is grabbed and saved; one without area or the
\* wrong way round is an error in some Pillow releases and an empty image in
\* others
GrabResults(a) == IF a[1] < a[3] /\ a[2] < a[4] THEN {TRUE} ELSE BOOLEAN

\* services/image_handler.py, capture_area(coords), lines 35-61: the
\* coordinates go to ImageGrab.grab as they are and an exception is re-raised
service_capture_area(a, grabbed) ==
    IF grabbed
    THEN [by |-> "services.image_handler", bbox |-> a, saved |-> {TempPath},
          task |-> FALSE, returned |-> <<TempPath, "screenshot">>, raised |-> None]
    ELSE [by |-> "services.image_handler", bbox |-> a, saved |-> {}, task |-> FALSE,
          returned |-> <<>>, raised |-> "Exception"]

\* SelectionWindow's on_selection(coords): the user has dragged a selection
on_selection ==
    /\ \E a \in Selections : area' = a
    /\ captured' = [by |-> "nobody"]
    /\ UNCHANGED <<pipeVars, canvasVars, ai_text, final_name>>

\* the selection is handed to the capture_area of utils/imaging.py
imaging_capture ==
    /\ area # <<>>
    /\ captured' = imaging_capture_area(area)
    /\ UNCHANGED <<pipeVars, canvasVars, area, ai_text, final_name>>

\* main_window.py lines 262 and 310: the selection is handed to the
\* capture_area of the ImageHandler of services/image_handler.py
service_capture ==
    /\ area # <<>>
    /\ \E grabbed \in GrabResults(area) : captured' = service_capture_area(area, grabbed)
    /\ UNCHANGED <<pipeVars, canvasVars, area, ai_text, final_name>>

NextCapture ==
    \/ on_selection
    \/ imaging_capture
    \/ service_capture

SpecCapture == InitCanvas /\ [][NextCapture]_vars

\* the width and the height of a selection after min/max normalisation
Width(a) == Max(a[1], a[3]) - Min(a[1], a[3])
Height(a) == Max(a[2], a[4]) - Min(a[2], a[4])

\* C25: a capture_area handed a selection narrower or lower than MinSize
\* returns (None, None) without raising, saves no file and starts no task; one
\* handed a selection of at least MinSize by MinSize grabs the normalised box
\* and returns the path of the file it saved, whatever the drag direction.
C25_SmallAreaRejected ==
    captured.by # "nobody" =>
        IF Width(area) < MinSize \/ Height(area) < MinSize
        THEN /\ captured.raised = None
             /\ captured.returned = Sentinel
             /\ captured.saved = {}
             /\ ~ captured.task
        ELSE /\ captured.raised = None
             /\ captured.bbox = <<Min(area[1], area[3]), Min(area[2], area[4]),
                                  Max(area[1], area[3]), Max(area[2], area[4])>>
             /\ captured.saved = {TempPath}
             /\ captured.returned[1] = TempPath

----------------------------------------------------------------------------
(* ImageAnalysisService._format_description.  A string is the sequence of   *)
(* its characters.                                                          *)

Lowercase == <<"a", "b", "c", "d", "e", "f", "g", "h", "i", "j", "k", "l", "m", "n", "o", "p", "q", "r", "s", "t", "u", "v", "w", "x", "y", "z">>
Uppercase == <<"A", "B", "C", "D", "E", "F", "G", "H", "I", "J", "K", "L", "M", "N", "O", "P", "Q", "R", "S", "T", "U", "V", "W", "X", "Y", "Z">>
Digits == {"0", "1", "2", "3", "4", "5", "6", "7", "8", "9"}

\* str.lower() and str.strip(), for the characters the descriptions are made of
lower(str) ==
    [i \in 1..Len(str) |->
        IF \E k \in 1..26 : Uppercase[k] = str[i]
        THEN Lowercase[CHOOSE k \in 1..26 : Uppercase[k] = str[i]]
        ELSE str[i]]
RECURSIVE lstrip(_)
lstrip(str) == IF str # <<>> /\ Head(str) = " " THEN lstrip(Tail(str)) ELSE str
RECURSIVE rstrip(_)
rstrip(str) ==
    IF str # <<>> /\ str[Len(str)] = " " THEN rstrip(SubSeq(str, 1, Len(str) - 1)) ELSE str
strip(str) == rstrip(lstrip(str))

\* line 92: re.sub(r'[^a-zA-Z0-9_]', '_', ...)
ReplaceInvalid(str) ==
    [i \in 1..Len(str) |->
        IF str[i] \in Range(Lowercase) \cup Range(Uppercase) \cup Digits \cup {"_"}
        THEN str[i] ELSE "_"]

\* line 95: re.sub(r'_+', '_', ...)
RECURSIVE CollapseRuns(_)
CollapseRuns(str) ==
    IF Len(str) < 2 THEN str
    ELSE IF str[1] = "_" /\ str[2] = "_" THEN CollapseRuns(Tail(str))
    ELSE <<str[1]>> \o CollapseRuns(Tail(str))

\* lines 102-103
target_min == 25
target_max == 35

\* line 108
padding_words == <<<<"s", "c", "r", "e", "e", "n", "s", "h", "o", "t">>, <<"i", "m", "a", "g", "e">>, <<"c", "a", "p", "t", "u", "r", "e">>>>

\* lines 109-110: the padding loop
RECURSIVE Pad(_, _)
Pad(clean_desc, words) ==
    IF Len(clean_desc) < target_min /\ words # <<>>
    THEN Pad(clean_desc \o <<"_">> \o Head(words), Tail(words))
    ELSE clean_desc

\* str.rfind('_') as a position counted from 1; 0 when there is none
RFind(str) ==
    IF \E i \in 1..Len(str) : str[i] = "_"
    THEN CHOOSE i \in 1..Len(str) : str[i] = "_" /\ \A j \in (i + 1)..Len(str) : str[j] # "_"
    ELSE 0

\* lines 111-116: cut to target_max characters, then back to the last
\* underscore if its index, counted from 0, is above target_min
Truncate(clean_desc) ==
    LET cut == SubSeq(clean_desc, 1, target_max)
        last_underscore == RFind(cut) - 1
    IN  IF last_underscore > target_min THEN SubSeq(cut, 1, last_underscore) ELSE cut

\* _format_description(description), lines 78-132, at the time current_time
_format_description(raw_description, current_time) ==
    LET clean_desc == CollapseRuns(ReplaceInvalid(lower(raw_description)))
        adjusted == IF Len(clean_desc) < target_min THEN Pad(clean_desc, padding_words)
                    ELSE IF Len(clean_desc) > target_max THEN Truncate(clean_desc)
                    ELSE clean_desc
    IN  adjusted \o <<"_">> \o current_time

\* what Gemini's answers are made of, the times of day, and the longest answer
Chunks == {<<"L", "o", "g", "i", "n">>, <<" ", "P", "a", "g", "e", "!", "!", " ">>, <<"D", "a", "r", "k", "_", "M", "o", "d", "e", "_", "S", "e", "t", "t", "i", "n", "g", "s", "2">>}
Clocks == {<<"0", "9", "3", "0">>}
MaxText == 40

\* the model's response.text grows by a chunk
GeminiAnswers ==
    /\ \E chunk \in Chunks :
        /\ Len(ai_text) + Len(chunk) <= MaxText
        /\ ai_text' = ai_text \o chunk
    /\ final_name' = <<>>
    /\ UNCHANGED <<pipeVars, canvasVars, area, captured>>

\* line 257: self._format_description(response.text.strip())
FormatDescription ==
    /\ ai_text # <<>>
    /\ \E current_time \in Clocks :
        final_name' = _format_description(strip(ai_text), current_time)
    /\ UNCHANGED <<pipeVars, canvasVars, area, captured, ai_text>>

NextNaming ==
    \/ GeminiAnswers
    \/ FormatDescription

SpecNaming == InitCanvas /\ [][NextNaming]_vars

\* the name without its _HHMM suffix
DescriptionPart(name) == SubSeq(name, 1, Len(name) - 5)

\* C26: the name made of a description consists of lowercase letters, digits
\* and underscores only, has no two underscores in a row, and its part before
\* the _HHMM suffix is target_min to target_max characters long.
C26_SanitizedName ==
    final_name # <<>> =>
        /\ \A i \in 1..Len(final_name) :
            final_name[i] \in Range(Lowercase) \cup Digits \cup {"_"}
        /\ \A i \in 1..(Len(final_name) - 1) :
            ~ (final_name[i] = "_" /\ final_name[i + 1] = "_")
        /\ Len(DescriptionPart(final_name)) >= target_min
        /\ Len(DescriptionPart(final_name)) <= target_max

----------------------------------------------------------------------------
(* Further properties of the canvas                                         *)

\* C31: in every state of the canvas a call of undo() and a call of redo()
\* return without raising.
C31_UndoNeverStuck ==
    /\ undo(Canvas).raised = None
    /\ redo(Canvas).raised = None

\* C32: every selected element is in the element list.
C32_SelectionOnCanvas ==
    selected_elements \subseteq Range(elements)

\* C33: a press and release of button 1 made while the current tool is SELECT
\* leaves the element list and the undo stack as they were.
C33_SelectToolAddsNothing ==
    (current_tool = "SELECT" /\ ~ drawing) =>
        \A p \in Points, text \in DialogTexts :
            LET c == PlainClick(Canvas, p[1], p[2], text)
            IN  /\ c.elements = elements
                /\ c.undo_stack = undo_stack

\* C36: when no selected element is a group, ungroup_selected() leaves the
\* element list and the selection as they were.
C36_UngroupOnlyGroups ==
    (\A i \in selected_elements : ~ IsGroup(heap[i])) =>
        \A order \in Orders(selected_elements) :
            LET c == ungroup_selected(Canvas, order)
            IN  /\ c.elements = elements
                /\ c.selected_elements = selected_elements

\* C34: when the background task is about to call the completion callback
\* it no longer holds the rename lock.
C34_CallbackOutsideLock ==
    (taskPc = "callback" /\ callback) => lock = "free"

----------------------------------------------------------------------------
(* Groups in the preview and in the saved image                             *)

\* _draw_element(element), drawing_tools.py lines 592-702: the canvas items
\* created for element id; there is no branch for the tool type SELECT, the
\* type of a group
_draw_element(c, id) ==
    LET e == c.heap[id]
    IN  IF e.tool_type \in {"RECTANGLE", "HIGHLIGHT", "PIXELATE", "GRAYSCALE"}
        THEN <<<<"rectangle", id>>>>
        ELSE IF e.tool_type = "ELLIPSE" THEN <<<<"oval", id>>>>
        ELSE IF e.tool_type = "LINE" THEN <<<<"line", id>>>>
        ELSE IF e.tool_type = "ARROW" THEN <<<<"line", id>>, <<"polygon", id>>>>
        ELSE IF e.tool_type = "FREEHAND"
        THEN IF Len(c.lists[e.points]) > 1 THEN <<<<"line", id>>>> ELSE <<>>
        ELSE IF e.tool_type = "TEXT" THEN <<<<"text", id>>>>
        ELSE IF e.tool_type = "SPEECH_BUBBLE"
        THEN <<<<"polygon", id>>, <<"polygon", id>>, <<"text", id>>>>
        ELSE IF e.tool_type = "COUNTER" THEN <<<<"oval", id>>, <<"text", id>>>>
        ELSE <<>>

\* the items on the canvas after _update_canvas(), lines 578-590
RECURSIVE Items(_, _)
Items(c, order) ==
    IF order = <<>> THEN <<>> ELSE _draw_element(c, Head(order)) \o Items(c, Tail(order))

\* the annotations on the canvas: the elements of the list and the members of
\* its groups that were drawn with a tool other than SELECT, a freehand stroke
\* counting from its second point
Annotations ==
    {i \in Reachable(Canvas, Range(elements)) :
        /\ heap[i].tool_type # "SELECT"
        /\ heap[i].tool_type = "FREEHAND" => Len(lists[heap[i].points]) > 1}

\* C35: every annotation on the canvas, the members of groups included, has an
\* item in the preview and a mark in the image that _save_image returns.
C35_GroupMembersPainted ==
    \A i \in Annotations :
        /\ \E k \in DOMAIN Items(Canvas, _update_canvas(Canvas)) :
                Items(Canvas, _update_canvas(Canvas))[k][2] = i
        /\ \A build \in PillowBuilds :
            LET saved == _save_image(Canvas, Captured, build)
            IN  saved.raised = None /\ i \in Range(Painters(saved.result))

\* the preview alone: every annotation on the canvas has an item in it
PreviewShowsGroupMembers ==
    \A i \in Annotations :
        \E k \in DOMAIN Items(Canvas, _update_canvas(Canvas)) :
            Items(Canvas, _update_canvas(Canvas))[k][2] = i

----------------------------------------------------------------------------
(* The hit test of lines and arrows                                         *)

\* the coordinates of the clicks and of the anchors of the segments
HitCoords == {0, 5, 10}

\* a click and the two anchors of a segment: <<x, y, x1, y1, x2, y2>>
Probes == HitCoords \X HitCoords \X HitCoords \X HitCoords \X HitCoords \X HitCoords

\* the element a drag from (x1, y1) to (x2, y2) leaves, lines 395-411
Dragged(tool, x1, y1, x2, y2) ==
    [DrawingElement(tool, x1, y1, <<>>, <<>>, 0) EXCEPT !.x2 = x2, !.y2 = y2]

\* a line or an arrow lies on the canvas and the user clicks
on_click ==
    /\ \E a \in Probes : area' = a
    /\ captured' = [by |-> "nobody"]
    /\ UNCHANGED <<pipeVars, canvasVars, ai_text, final_name>>

\* _find_element_at asks _is_point_in_element(element, x, y), lines 533-538
hit_test ==
    /\ area # <<>>
    /\ \E tool \in {"LINE", "ARROW"} :
        captured' = [by |-> "_is_point_in_element", tool |-> tool,
                     hit |-> _is_point_in_element(
                                Dragged(tool, area[3], area[4], area[5], area[6]),
                                area[1], area[2])]
    /\ UNCHANGED <<pipeVars, canvasVars, area, ai_text, final_name>>

NextHitTest ==
    \/ on_click
    \/ hit_test

SpecHitTest == InitCanvas /\ [][NextHitTest]_vars

\* whether (x, y) is at most 5 away from the segment (x1, y1)-(x2, y2): the
\* projection parameter dot / len_sq clamped to [0, 1], a segment without
\* length taken as a point; distances compared by their squares
WithinFive(x, y, x1, y1, x2, y2) ==
    LET len_sq == (x2 - x1) * (x2 - x1) + (y2 - y1) * (y2 - y1)
        dot == (x - x1) * (x2 - x1) + (y - y1) * (y2 - y1)
        cross == (x - x1) * (y2 - y1) - (x2 - x1) * (y - y1)
    IN  IF len_sq = 0 \/ dot < 0
        THEN (x - x1) * (x - x1) + (y - y1) * (y - y1) <= 25
        ELSE IF dot > len_sq
        THEN (x - x2) * (x - x2) + (y - y2) * (y - y2) <= 25
        ELSE cross * cross <= 25 * len_sq

\* C37: the hit test of a line or an arrow is true exactly when the click is
\* at most 5 units away from the segment, a distance of exactly 5 included.
C37_LineHitWithinFive ==
    captured.by = "_is_point_in_element" =>
        (captured.hit <=>
            WithinFive(area[1], area[2], area[3], area[4], area[5], area[6]))

\* the hit test differs from "at most 5" at the distance of exactly 5 only
LineHitBelowFive ==
    captured.by = "_is_point_in_element" =>
        /\ captured.hit => WithinFive(area[1], area[2], area[3], area[4], area[5], area[6])
        /\ (WithinFive(area[1], area[2], area[3], area[4], area[5], area[6]) /\ ~ captured.hit)
            => LET len_sq == (area[5] - area[3]) * (area[5] - area[3])
                             + (area[6] - area[4]) * (area[6] - area[4])
                   dot == (area[1] - area[3]) * (area[5] - area[3])
                          + (area[2] - area[4]) * (area[6] - area[4])
                   cross == (area[1] - area[3]) * (area[6] - area[4])
                            - (area[5] - area[3]) * (area[2] - area[4])
               IN  IF len_sq = 0 \/ dot < 0
                   THEN (area[1] - area[3]) * (area[1] - area[3])
                        + (area[2] - area[4]) * (area[2] - area[4]) = 25
                   ELSE IF dot > len_sq
                   THEN (area[1] - area[5]) * (area[1] - area[5])
                        + (area[2] - area[6]) * (area[2] - area[6]) = 25
                   ELSE cross * cross = 25 * len_sq

----------------------------------------------------------------------------
(* Small and reversed regions of the pixelate and grayscale tools           *)

\* the paint tools dragged between the corners: regions of 5 by 5, smaller
\* than the effect strength of 10
NextEffects ==
    \/ PaintToolButton
    \/ CornerPress
    \/ CornerMotion
    \/ ButtonRelease1

SpecEffects == InitCanvas /\ [][NextEffects]_vars

\* C38: for a pixelate element over a region of width w >= 1 and height
\* h >= 1 the loop of _save_image downsamples the region to
\* max(1, w div effect_strength) by max(1, h div effect_strength) and pastes it
\* scaled back, so a region smaller than effect_strength is pixelated too.
C38_SmallRegionPixelated ==
    \A k \in 1..Len(elements), build \in PillowBuilds :
        LET id == elements[k]
            e == heap[id]
            w == e.x2 - e.x1
            h == e.y2 - e.y1
        IN  (e.tool_type = "PIXELATE" /\ w >= 1 /\ h >= 1) =>
                /\ Paint(Canvas, id, build).raised = None
                /\ Paint(Canvas, id, build).marks =
                    <<<<"pixelate", id, <<e.x1, e.y1, e.x2, e.y2>>,
                        <<Max(1, w \div e.effect_strength),
                          Max(1, h \div e.effect_strength)>>>>>>

\* the canvas c with the anchors of element id put in (min, min)-(max, max)
\* order
Normalized(c, id) ==
    LET e == c.heap[id]
    IN  [c EXCEPT !.heap[id] = [e EXCEPT !.x1 = Min(e.x1, e.x2), !.y1 = Min(e.y1, e.y2),
                                         !.x2 = Max(e.x1, e.x2), !.y2 = Max(e.y1, e.y2)]]

\* C39: _save_image applies a pixelate or grayscale element to the normalized
\* box of its two anchors and leaves the stored anchors alone: an element
\* dragged right-to-left or bottom-to-top is painted as the same box dragged
\* left-to-right and top-to-bottom is, and does not end the flattening.
C39_ReversedDragNormalized ==
    \A k \in 1..Len(elements), build \in PillowBuilds :
        LET id == elements[k]
        IN  heap[id].tool_type \in {"PIXELATE", "GRAYSCALE"} =>
                /\ Paint(Canvas, id, build).raised = None
                /\ Paint(Canvas, id, build) = Paint(Normalized(Canvas, id), id, build)
                /\ _save_image(Canvas, Captured, build).canvas = Canvas

\* what holds of the anchors: _save_image leaves them as they were dragged
AnchorsKept ==
    \A build \in PillowBuilds : _save_image(Canvas, Captured, build).canvas = Canvas

----------------------------------------------------------------------------
(* The scratch directory: generate_temp_path and the sweep                  *)

\* str(n) of a natural number: its decimal digits
RECURSIVE Str(_)
Str(n) ==
    LET digit == <<"0", "1", "2", "3", "4", "5", "6", "7", "8", "9">>[(n % 10) + 1]
    IN  IF n < 10 THEN <<digit>> ELSE Append(Str(n \div 10), digit)

\* str(int(time.time() * 1000)) for the time seconds + millis / 1000: the
\* digits of the seconds followed by the three digits of the milliseconds
MillisString(seconds, millis) ==
    Str(seconds) \o SubSeq(Str(1000 + millis), 2, 4)

\* s[-4:]
LastFour(s) == SubSeq(s, Max(1, Len(s) - 3), Len(s))

\* generate_temp_path(prefix, suffix), lines 80-96: the name of the file, for
\* the time of the call and the uuid4 drawn
generate_temp_path(prefix, suffix, seconds, millis, uuid4) ==
    LET timestamp == LastFour(MillisString(seconds, millis))
        unique_id == SubSeq(uuid4, 1, 4)
    IN  prefix \o timestamp \o unique_id \o suffix

\* whether name matches the glob pattern pat: "*" stands for any run of
\* characters, "?" for one character, any other character for itself
RECURSIVE fnmatch(_, _)
fnmatch(name, pat) ==
    IF pat = <<>> THEN name = <<>>
    ELSE IF Head(pat) = "*"
    THEN \/ fnmatch(name, Tail(pat))
         \/ name # <<>> /\ fnmatch(Tail(name), pat)
    ELSE /\ name # <<>>
         /\ Head(pat) = "?" \/ Head(pat) = Head(name)
         /\ fnmatch(Tail(name), Tail(pat))

\* cleanup_temp_files(pattern), lines 33-56, on the directory dir: the files
\* left after every file of temp_path.glob(pattern) is unlinked
cleanup_temp_files(dir, pat) == {f \in dir : ~ fnmatch(f, pat)}

\* the defaults of the two methods, lines 33 and 80
DefaultPattern == <<"s", "_", "*", ".", "p", "n", "g">>
DefaultPrefix == <<"s">>
DefaultSuffix == <<".", "p", "n", "g">>

\* values of int(time.time()), of the milliseconds and of str(uuid.uuid4()),
\* and the number of files in the scratch directory
Seconds == {1762128000, 1762131599}
Millis == {0, 7, 45, 999}
Uuids == {<<"3", "f", "0", "a", "9", "c", "1", "e", "-", "5", "b", "7", "d", "-", "4", "e", "2", "a", "-", "9", "c", "4", "1", "-", "0", "d", "6", "f", "8", "a", "2", "b", "7", "e", "1", "5">>,
          <<"a", "1", "b", "2", "c", "3", "d", "4", "-", "0", "e", "9", "f", "-", "4", "a", "6", "b", "-", "8", "c", "7", "d", "-", "1", "1", "2", "2", "3", "3", "4", "4", "5", "5", "6", "6">>,
          <<"0", "0", "f", "f", "1", "2", "a", "b", "-", "7", "c", "3", "e", "-", "4", "d", "2", "1", "-", "b", "5", "a", "0", "-", "9", "e", "8", "d", "7", "c", "6", "b", "5", "a", "4", "0">>}
MaxFiles == 2

\* utils/imaging.py lines 182-185: a capture saves its screenshot at
\* generate_temp_path()
save_screenshot ==
    /\ Cardinality(files) < MaxFiles
    /\ \E seconds \in Seconds, millis \in Millis, uuid4 \in Uuids :
        LET temp_path == generate_temp_path(DefaultPrefix, DefaultSuffix,
                                            seconds, millis, uuid4)
        IN  /\ files' = files \cup {temp_path}
            /\ captured' = [by |-> "generate_temp_path", returned |-> temp_path]
    /\ UNCHANGED <<openFile, windows, aiVars, cfgVars, taskVars, uploadVars, uiVars,
                   canvasVars, area, ai_text, final_name>>

\* app.py lines 41, 91 and 108: self.temp_file_service.cleanup_temp_files()
sweep ==
    /\ files' = cleanup_temp_files(files, DefaultPattern)
    /\ captured' = [by |-> "cleanup_temp_files", returned |-> TRUE]
    /\ UNCHANGED <<openFile, windows, aiVars, cfgVars, taskVars, uploadVars, uiVars,
                   canvasVars, area, ai_text, final_name>>

NextSweep ==
    \/ save_screenshot
    \/ sweep

SpecSweep == InitCanvas /\ [][NextSweep]_vars

\* the names generate_temp_path() can give with its default prefix and suffix
GeneratedNames ==
    {generate_temp_path(DefaultPrefix, DefaultSuffix, seconds, millis, uuid4) :
        seconds \in Seconds, millis \in Millis, uuid4 \in Uuids}

\* C40: after cleanup_temp_files() with its default pattern no file whose name
\* generate_temp_path() produced with its default prefix and suffix is left in
\* the scratch directory.
C40_SweepRemovesGenerated ==
    captured.by = "cleanup_temp_files" => files \cap GeneratedNames = {}

\* no name of generate_temp_path() matches the default pattern of the sweep,
\* and every one of them matches the pattern s*.png
NoGeneratedNameMatches ==
    \A f \in GeneratedNames :
        /\ ~ fnmatch(f, DefaultPattern)
        /\ fnmatch(f, <<"s", "*", ".", "p", "n", "g">>)
        /\ Len(f) = 13

====
